---- MODULE Spec2Model ----
(***************************************************************************)
(* Model of labchat/edgetech.py: the DewMaster serial driver.              *)
(*   - DewMaster.read       : idle-count framing of one reply (SpecRead)   *)
(*   - DewMaster.write, flush, set_average, set_output_interval (SpecCmd)  *)
(*   - DewMaster._parse_data: parser of one reply text (SpecParse)         *)
(*   - DewMaster.log_data   : the polling logger (Spec, FairSpec)          *)
(***************************************************************************)
EXTENDS Integers, Sequences, FiniteSets, TLC

\* ------------------------------------------------------------------------
\* Bounds of the model
\* ------------------------------------------------------------------------
\* largest number of Readings the logger's history may hold
MaxHist == 3
\* largest number of bytes the instrument delivers during one read()
MaxBytes == 4
\* largest number of collecting ticks whose outcome is remembered
MaxTicks == 5
\* largest number of '\r\n'-separated segments of a text given to _parse_data
MaxLines == 3

\* "total is None"
None == -1

\* ------------------------------------------------------------------------
\* Text of one reply line, abstracted to what the regular expressions of
\* _parse_data see of it:
\*   ts     "none"  no match of (\d\d/?){3}\s+(\d\d:?){3}
\*          "full"  MM/DD/YY HH:MM:SS, accepted by strptime
\*          "nosep" MMDDYY HHMMSS: matches the expression, rejected by strptime
\*   sec    the time the stamp denotes, in seconds
\*   toks   the NAME = value occurrences, left to right; a value text is
\*          either a number (ok) or a run of [-\d\.] that float() rejects
\*   status the trailing run of capitals, "" when there is none
\* ------------------------------------------------------------------------
Tok(n, okv, v) == [name |-> n, ok |-> okv, num |-> v]

SegEmpty == [ts |-> "none", sec |-> 0, toks |-> <<>>, status |-> ""]
SegMenu == [ts |-> "none", sec |-> 0, toks |-> <<>>, status |-> "INPUT"]
SegLock == [ts |-> "full", sec |-> 10, toks |-> <<Tok("DP", TRUE, -40)>>, status |-> "SERVOLOCK"]
SegBare == [ts |-> "none", sec |-> 0, toks |-> <<Tok("DP", TRUE, 1234565), Tok("AT", TRUE, 21)>>, status |-> ""]
SegNoSep == [ts |-> "nosep", sec |-> 10, toks |-> <<Tok("DP", TRUE, 7)>>, status |-> "SERVOLOCK"]
SegBadNum == [ts |-> "full", sec |-> 10, toks |-> <<Tok("DP", FALSE, 0)>>, status |-> "HEAT"]

Segments == {SegEmpty, SegMenu, SegLock, SegBare, SegNoSep, SegBadNum}

\* what read().split('\r\n') can give: one or two segments
Frames == {<<s>> : s \in Segments} \cup {<<s, t>> : s \in {SegMenu, SegLock, SegBare}, t \in {SegLock, SegBare, SegBadNum}}

\* time() at the parse, seconds and microseconds
LocalTimes == {[sec |-> 90, usec |-> 5]}

\* the exceptions of _parse_data: all are ValueError, with different messages
ValueError == [error |-> "ValueError", msg |-> "does not appear to contain any data"]
StrptimeError == [error |-> "ValueError", msg |-> "time data does not match format"]
FloatError == [error |-> "ValueError", msg |-> "could not convert string to float"]

HasToken(seg) == seg.toks # <<>>

\* float(m[1]) accepting every value text
AllFloatsLenient(toks) == TRUE

\* float(m[1]) for every token: all succeed or the first failure raises
AllFloats(toks) == \A i \in 1..Len(toks) : toks[i].ok

\* _parse_data(data_str), data_str given as its '\r\n'-separated segments
_parse_data(lines, lt) ==
    LET multi == Len(lines) > 1
        anyTok == \E i \in 1..Len(lines) : HasToken(lines[i])
        seg == lines[1]
    IN  IF multi /\ ~anyTok THEN ValueError
        ELSE IF seg.ts = "nosep" THEN StrptimeError
        ELSE IF ~HasToken(seg) THEN ValueError
        ELSE IF ~AllFloats(seg.toks) THEN FloatError
        ELSE [error |-> "",
              dt |-> IF seg.ts = "none" THEN lt ELSE [sec |-> seg.sec, usec |-> 0],
              measurements |-> [i \in 1..Len(seg.toks) |-> seg.toks[i].name],
              data |-> [i \in 1..Len(seg.toks) |-> seg.toks[i].num],
              status |-> IF seg.status = "" THEN "UNKNOWN" ELSE seg.status]

\* the warnings _parse_data raises before it returns or fails
ParseWarnings(lines) ==
    LET multi == Len(lines) > 1
        anyTok == \E i \in 1..Len(lines) : HasToken(lines[i])
        seg == lines[1]
        w1 == IF multi THEN {"multiple lines"} ELSE {}
        w2 == IF seg.ts = "none" THEN {"no timestamp"} ELSE {}
        w3 == IF seg.status = "" THEN {"no status"}
              ELSE IF seg.status # "SERVOLOCK" THEN {"status not SERVOLOCK"}
              ELSE {}
    IN  IF multi /\ ~anyTok THEN w1
        ELSE IF seg.ts = "nosep" THEN w1
        ELSE IF ~HasToken(seg) \/ ~AllFloats(seg.toks) THEN w1 \cup w2
        ELSE w1 \cup w2 \cup w3

\* the try/except loop over raw_data: the Readings of the segments that parse
RECURSIVE ParseAll(_, _)
ParseAll(raw, lt) ==
    IF raw = <<>> THEN <<>>
    ELSE LET r == _parse_data(<<Head(raw)>>, lt)
         IN  (IF r.error = "" THEN <<r>> ELSE <<>>) \o ParseAll(Tail(raw), lt)

\* ------------------------------------------------------------------------
\* The CSV sink's rendering of a Reading
\* ------------------------------------------------------------------------
Abs(x) == IF x < 0 THEN 0 - x ELSE x

\* '{0:g}'.format(v): six significant digits, ties to even
FormatG(v) ==
    IF Abs(v) < 1000000 THEN v
    ELSE LET q == Abs(v) \div 10
             r == Abs(v) % 10
             up == IF r > 5 \/ (r = 5 /\ q % 2 = 1) THEN q + 1 ELSE q
         IN  (IF v < 0 THEN 0 - 1 ELSE 1) * up * 10

\* d[0].strftime('%m/%d/%Y %H:%M:%S'): whole seconds
Strftime(dt) == dt.sec

CsvRow(d) == [time |-> Strftime(d.dt),
              values |-> [i \in 1..Len(d.data) |-> FormatG(d.data[i])],
              status |-> d.status]

CsvRows(ds) == [i \in 1..Len(ds) |-> CsvRow(ds[i])]


\* ------------------------------------------------------------------------
\* State
\* ------------------------------------------------------------------------
VARIABLES
    pc,         \* position of log_data / of read()
    err,        \* the exception that ended log_data, "" when none
    interval,   \* log_data's interval argument
    total,      \* log_data's total argument, None or seconds
    t_left,     \* t_stop - time(), floored at 0 (meaningful once t_stop is set)
    data,       \* the history: list of Readings
    tries,      \* the consecutive-empty counter
    data_n,     \* the Readings of the current collecting tick
    raw_data,   \* the segments of the frame read in the current cycle
    npy,        \* contents of the .npy file
    csv,        \* the .csv file: [exists, header, rows]
    parsed,     \* history variable: every Reading that a segment parsed to
    cycles,     \* history variable: read cycles performed in Priming
    tries0,     \* history variable: tries at the start of the last cycle
    yield,      \* history variable: Readings parsed in the last cycle
    ticks,      \* history variable: outcomes of the first collecting ticks
    emptyRun,   \* history variable: consecutive empty collecting ticks
    base,       \* history variable: tries when the current empty run began
    sinkOps,    \* history variable: number of sink operations performed
    buf,        \* read(): bytes buffered in the stream
    delivered,  \* history variable: every byte the instrument has delivered
    t_now,      \* read(): t_now, in sampling periods
    t_stop,     \* read(): t_stop
    last_val,   \* read(): last_val
    now_val,    \* read(): now_val
    out,        \* read(): out
    ret,        \* read(): the returned text
    warned,     \* read(): the 'read attempt timed out' warning was raised
    buf0,       \* history variable: the stream buffer when read() sampled it last
    samples,    \* history variable: the in_waiting samples of the call
    nreads,     \* history variable: number of device.read calls of the call
    helper,     \* the method that was called: "write", "set_average", ...
    todo,       \* the transport calls the method has still to make
    command,    \* write(): the characters of command not yet sent
    retTo,      \* where the running read() returns to
    called,     \* history variable: the transport calls the method set out to make
    iolog,      \* history variable: the stream operations performed, in order
    p_lines,    \* _parse_data: data_str, as its '\r\n'-separated segments
    p_lt,       \* _parse_data: what time() gives during the call
    p_res,      \* _parse_data: the Reading returned or the exception raised
    p_warn      \* _parse_data: the warnings raised

logVars == <<pc, err, interval, total, t_left, data, tries, data_n, raw_data, npy, csv,
             parsed, cycles, tries0, yield, ticks, emptyRun, base, sinkOps>>
logRest == <<interval, total, t_left, data, tries, data_n, raw_data, npy, csv, parsed,
             cycles, tries0, yield, ticks, emptyRun, base, sinkOps>>
readVars == <<buf, delivered, t_now, t_stop, last_val, now_val, out, ret, warned,
              buf0, samples, nreads>>
writeVars == <<helper, todo, command, retTo, called, iolog>>
parseVars == <<p_lines, p_lt, p_res, p_warn>>
vars == <<logVars, readVars, writeVars, parseVars>>

NoFile == [exists |-> FALSE, header |-> <<>>, rows |-> <<>>]

InitLogVars ==
    /\ pc = "call"
    /\ err = ""
    /\ interval = 0
    /\ total = None
    /\ t_left = 0
    /\ data = <<>>
    /\ tries = 0
    /\ data_n = <<>>
    /\ raw_data = <<>>
    /\ npy = <<>>
    /\ csv = NoFile
    /\ parsed = <<>>
    /\ cycles = 0
    /\ tries0 = 0
    /\ yield = 0
    /\ ticks = <<>>
    /\ emptyRun = 0
    /\ base = 0
    /\ sinkOps = 0

InitReadVars ==
    /\ buf = <<>>
    /\ delivered = <<>>
    /\ t_now = 0
    /\ t_stop = 0
    /\ last_val = 0
    /\ now_val = 0
    /\ out = <<>>
    /\ ret = <<>>
    /\ warned = FALSE
    /\ buf0 = <<>>
    /\ samples = <<>>
    /\ nreads = 0

NotCalled == [error |-> "not called"]

InitParseVars ==
    /\ p_lines = <<>>
    /\ p_lt = [sec |-> 0, usec |-> 0]
    /\ p_res = NotCalled
    /\ p_warn = {}

InitWriteVars ==
    /\ helper = ""
    /\ todo = <<>>
    /\ command = <<>>
    /\ retTo = ""
    /\ called = <<>>
    /\ iolog = <<>>

\* ------------------------------------------------------------------------
\* log_data
\* ------------------------------------------------------------------------
Intervals == {0, 1}
Totals == {None, 0, 3}

\* lines 291-297: path check, file names, set_output_interval(interval)
Start ==
    /\ pc = "call"
    /\ \E iv \in Intervals, tot \in Totals, dirOK \in BOOLEAN :
         /\ interval' = iv
         /\ total' = tot
         /\ IF ~dirOK THEN pc' = "stopped" /\ err' = "NotADirectoryError"
            ELSE IF iv < 1 THEN pc' = "stopped" /\ err' = "ValueError"
            ELSE pc' = "prime" /\ err' = ""
    /\ UNCHANGED <<t_left, data, tries, data_n, raw_data, npy, csv, parsed, cycles,
                   tries0, yield, ticks, emptyRun, base, sinkOps>>
    /\ UNCHANGED readVars
    /\ UNCHANGED writeVars
    /\ UNCHANGED parseVars

\* lines 300-311: one cycle of the priming loop
PrimeCycle ==
    /\ pc = "prime"
    /\ \E frame \in Frames, lt \in LocalTimes :
         LET new == ParseAll(frame, lt)
         IN  /\ Len(data) + Len(new) <= MaxHist
             /\ raw_data' = frame
             /\ data' = data \o new
             /\ parsed' = parsed \o new
             /\ yield' = Len(new)
             /\ cycles' = cycles + 1
             /\ tries0' = tries
             /\ IF tries > 2
                THEN /\ err' = "NoResponse"
                     /\ pc' = "stopped"
                     /\ tries' = tries
                ELSE /\ err' = err
                     /\ tries' = tries + 1
                     /\ pc' = IF data' # <<>> THEN "init_npy" ELSE "prime"
    /\ UNCHANGED <<interval, total, t_left, data_n, npy, csv, ticks, emptyRun,
                   base, sinkOps>>
    /\ UNCHANGED readVars
    /\ UNCHANGED writeVars
    /\ UNCHANGED parseVars

\* line 313: save(npy_flnm, data)
InitNpy ==
    /\ pc = "init_npy"
    /\ npy' = data
    /\ sinkOps' = sinkOps + 1
    /\ pc' = "init_csv"
    /\ UNCHANGED <<err, interval, total, t_left, data, tries, data_n, raw_data, csv,
                   parsed, cycles, tries0, yield, ticks, emptyRun, base>>
    /\ UNCHANGED readVars
    /\ UNCHANGED writeVars
    /\ UNCHANGED parseVars

\* lines 314-325: open(csv_flnm, 'w'), header and the rows of data
InitCsv ==
    /\ pc = "init_csv"
    /\ csv' = [exists |-> TRUE, header |-> data[1].measurements, rows |-> CsvRows(data)]
    /\ sinkOps' = sinkOps + 1
    /\ pc' = "set_stop"
    /\ UNCHANGED <<err, interval, total, t_left, data, tries, data_n, raw_data, npy,
                   parsed, cycles, tries0, yield, ticks, emptyRun, base>>
    /\ UNCHANGED readVars
    /\ UNCHANGED writeVars
    /\ UNCHANGED parseVars

\* lines 327-331 with go_cond = time() < t_stop in place of go_cond = True
SetStopTested ==
    /\ pc = "set_stop"
    /\ t_left' = IF total = None THEN 0 ELSE total
    /\ base' = tries
    /\ pc' = IF total # None /\ ~(t_left' > 0) THEN "stopped" ELSE "tick"
    /\ UNCHANGED <<err, interval, total, data, tries, data_n, raw_data, npy, csv,
                   parsed, cycles, tries0, yield, ticks, emptyRun, sinkOps>>
    /\ UNCHANGED readVars
    /\ UNCHANGED writeVars
    /\ UNCHANGED parseVars

\* lines 327-331: t_stop = time() + total, go_cond = True
SetStop ==
    /\ pc = "set_stop"
    /\ t_left' = IF total = None THEN 0 ELSE total
    /\ base' = tries
    /\ pc' = "tick"
    /\ UNCHANGED <<err, interval, total, data, tries, data_n, raw_data, npy, csv,
                   parsed, cycles, tries0, yield, ticks, emptyRun, sinkOps>>
    /\ UNCHANGED readVars
    /\ UNCHANGED writeVars
    /\ UNCHANGED parseVars

Max(a, b) == IF a > b THEN a ELSE b

\* lines 333-343: sleep, read, parse the segments, test data_n
CollectRead ==
    /\ pc = "tick"
    /\ \E frame \in Frames, lt \in LocalTimes, late \in {0, 1} :
         LET new == ParseAll(frame, lt)
         IN  /\ Len(data) + Len(new) <= MaxHist
             /\ raw_data' = frame
             /\ data_n' = new
             /\ parsed' = parsed \o new
             /\ yield' = Len(new)
             /\ t_left' = IF total = None THEN t_left
                          ELSE Max(0, t_left - (interval + late))
             /\ pc' = IF new # <<>> THEN "append" ELSE "empty"
    /\ tries0' = tries
    /\ UNCHANGED <<err, interval, total, data, tries, npy, csv, cycles, ticks,
                   emptyRun, base, sinkOps>>
    /\ UNCHANGED readVars
    /\ UNCHANGED writeVars
    /\ UNCHANGED parseVars

Note(t) == IF Len(ticks) < MaxTicks THEN Append(ticks, t) ELSE ticks

\* lines 344-346 with "data = data_n" in place of "data += data_n"
CollectAppendReplace ==
    /\ pc = "append"
    /\ tries' = 0
    /\ data' = data_n
    /\ ticks' = Note("S")
    /\ emptyRun' = 0
    /\ base' = 0
    /\ pc' = "save_npy"
    /\ UNCHANGED <<err, interval, total, t_left, data_n, raw_data, npy, csv, parsed,
                   cycles, tries0, yield, sinkOps>>
    /\ UNCHANGED readVars
    /\ UNCHANGED writeVars
    /\ UNCHANGED parseVars

\* lines 344-346: tries = 0, data += data_n
CollectAppend ==
    /\ pc = "append"
    /\ tries' = 0
    /\ data' = data \o data_n
    /\ ticks' = Note("S")
    /\ emptyRun' = 0
    /\ base' = 0
    /\ pc' = "save_npy"
    /\ UNCHANGED <<err, interval, total, t_left, data_n, raw_data, npy, csv, parsed,
                   cycles, tries0, yield, sinkOps>>
    /\ UNCHANGED readVars
    /\ UNCHANGED writeVars
    /\ UNCHANGED parseVars

\* line 347: save(npy_flnm, data)
SaveNpy ==
    /\ pc = "save_npy"
    /\ npy' = data
    /\ sinkOps' = sinkOps + 1
    /\ pc' = "append_csv"
    /\ UNCHANGED <<err, interval, total, t_left, data, tries, data_n, raw_data, csv,
                   parsed, cycles, tries0, yield, ticks, emptyRun, base>>
    /\ UNCHANGED readVars
    /\ UNCHANGED writeVars
    /\ UNCHANGED parseVars

\* lines 349-355 with the loop running over data in place of data_n
AppendCsvAll ==
    /\ pc = "append_csv"
    /\ csv' = [csv EXCEPT !.exists = TRUE, !.rows = @ \o CsvRows(data)]
    /\ sinkOps' = sinkOps + 1
    /\ pc' = "check"
    /\ UNCHANGED <<err, interval, total, t_left, data, tries, data_n, raw_data, npy,
                   parsed, cycles, tries0, yield, ticks, emptyRun, base>>
    /\ UNCHANGED readVars
    /\ UNCHANGED writeVars
    /\ UNCHANGED parseVars

\* lines 349-355: open(csv_flnm, 'a'), the rows of data_n
AppendCsv ==
    /\ pc = "append_csv"
    /\ csv' = [csv EXCEPT !.exists = TRUE, !.rows = @ \o CsvRows(data_n)]
    /\ sinkOps' = sinkOps + 1
    /\ pc' = "check"
    /\ UNCHANGED <<err, interval, total, t_left, data, tries, data_n, raw_data, npy,
                   parsed, cycles, tries0, yield, ticks, emptyRun, base>>
    /\ UNCHANGED readVars
    /\ UNCHANGED writeVars
    /\ UNCHANGED parseVars

\* lines 356-359 with a save(npy_flnm, data_n) on the empty branch
CollectEmptySaves ==
    /\ pc = "empty"
    /\ ticks' = Note("E")
    /\ emptyRun' = emptyRun + 1
    /\ npy' = data_n
    /\ sinkOps' = sinkOps + 1
    /\ IF tries > 3
       THEN /\ err' = "DataStarved"
            /\ pc' = "stopped"
            /\ tries' = tries
       ELSE /\ err' = err
            /\ tries' = tries + 1
            /\ pc' = "check"
    /\ UNCHANGED <<interval, total, t_left, data, data_n, raw_data, csv, parsed,
                   cycles, tries0, yield, base>>
    /\ UNCHANGED readVars
    /\ UNCHANGED writeVars
    /\ UNCHANGED parseVars

\* lines 356-359 with the threshold one higher
CollectEmptyLate ==
    /\ pc = "empty"
    /\ ticks' = Note("E")
    /\ emptyRun' = emptyRun + 1
    /\ IF tries > 4
       THEN /\ err' = "DataStarved"
            /\ pc' = "stopped"
            /\ tries' = tries
       ELSE /\ err' = err
            /\ tries' = tries + 1
            /\ pc' = "check"
    /\ UNCHANGED <<interval, total, t_left, data, data_n, raw_data, npy, csv, parsed,
                   cycles, tries0, yield, base, sinkOps>>
    /\ UNCHANGED readVars
    /\ UNCHANGED writeVars
    /\ UNCHANGED parseVars

\* lines 356-359: the tick gave nothing
CollectEmpty ==
    /\ pc = "empty"
    /\ ticks' = Note("E")
    /\ emptyRun' = emptyRun + 1
    /\ IF tries > 3
       THEN /\ err' = "DataStarved"
            /\ pc' = "stopped"
            /\ tries' = tries
       ELSE /\ err' = err
            /\ tries' = tries + 1
            /\ pc' = "check"
    /\ UNCHANGED <<interval, total, t_left, data, data_n, raw_data, npy, csv, parsed,
                   cycles, tries0, yield, base, sinkOps>>
    /\ UNCHANGED readVars
    /\ UNCHANGED writeVars
    /\ UNCHANGED parseVars

\* lines 360-361 and the loop test of line 332
CheckDeadline ==
    /\ pc = "check"
    /\ pc' = IF total # None /\ ~(t_left > 0) THEN "stopped" ELSE "tick"
    /\ UNCHANGED <<err, interval, total, t_left, data, tries, data_n, raw_data, npy, csv,
                   parsed, cycles, tries0, yield, ticks, emptyRun, base, sinkOps>>
    /\ UNCHANGED readVars
    /\ UNCHANGED writeVars
    /\ UNCHANGED parseVars

\* ctrl-c (lines 276-278): KeyboardInterrupt is raised wherever log_data is
Interrupt ==
    /\ pc \in {"prime", "init_npy", "init_csv", "set_stop", "tick", "append",
               "save_npy", "append_csv", "empty", "check"}
    /\ pc' = "stopped"
    /\ err' = "KeyboardInterrupt"
    /\ UNCHANGED logRest
    /\ UNCHANGED readVars
    /\ UNCHANGED writeVars
    /\ UNCHANGED parseVars

Init == InitLogVars /\ InitReadVars /\ InitWriteVars /\ InitParseVars

\* the steps of log_data itself
Program ==
    \/ Start
    \/ PrimeCycle
    \/ InitNpy
    \/ InitCsv
    \/ SetStop
    \/ CollectRead
    \/ CollectAppend
    \/ SaveNpy
    \/ AppendCsv
    \/ CollectEmpty
    \/ CheckDeadline

Next ==
    \/ Start
    \/ PrimeCycle
    \/ InitNpy
    \/ InitCsv
    \/ SetStop
    \/ CollectRead
    \/ CollectAppend
    \/ SaveNpy
    \/ AppendCsv
    \/ CollectEmpty
    \/ CheckDeadline
    \/ Interrupt

Spec == Init /\ [][Next]_vars

\* log_data is the only thread and none of its steps blocks for ever: sleep
\* and read() return
FairSpec == Spec /\ WF_vars(Program)


\* ------------------------------------------------------------------------
\* read()
\* ------------------------------------------------------------------------
\* self.device.timeout, in sampling periods of 0.05 s
Timeout == 3

\* the bytes of a reply: a printable character and a whitespace character
Bytes == {"D", "CR"}

IsSpace(b) == b = "CR"

RECURSIVE LStrip(_)
LStrip(s) == IF s # <<>> /\ IsSpace(Head(s)) THEN LStrip(Tail(s)) ELSE s

RECURSIVE RStrip(_)
RStrip(s) == IF s # <<>> /\ IsSpace(s[Len(s)]) THEN RStrip(SubSeq(s, 1, Len(s) - 1)) ELSE s

\* str.strip()
Strip(s) == RStrip(LStrip(s))

\* line 100: the available count is positive and equals the previous sample
StableAny(nv, lv) == nv > 0

Stable(nv, lv) == nv > 0 /\ nv = lv

\* the instrument puts one more byte into the stream
Arrive ==
    /\ pc \in {"r_call", "r_test", "r_sample", "r_consume", "r_sleep"}
    /\ Len(delivered) < MaxBytes
    /\ \E b \in Bytes : buf' = Append(buf, b) /\ delivered' = Append(delivered, b)
    /\ UNCHANGED <<pc, t_now, t_stop, last_val, now_val, out, ret, warned,
                   buf0, samples, nreads>>
    /\ UNCHANGED <<err, interval, total, t_left, data, tries, data_n, raw_data, npy, csv,
                   parsed, cycles, tries0, yield, ticks, emptyRun, base, sinkOps>>
    /\ UNCHANGED writeVars
    /\ UNCHANGED parseVars

\* lines 94-97
ReadStart ==
    /\ pc = "r_call"
    /\ t_now' = 0
    /\ t_stop' = 0 + Timeout
    /\ last_val' = 0
    /\ out' = <<>>
    /\ pc' = "r_test"
    /\ UNCHANGED <<buf, delivered, now_val, ret, warned, buf0, samples, nreads>>
    /\ UNCHANGED <<err, interval, total, t_left, data, tries, data_n, raw_data, npy, csv,
                   parsed, cycles, tries0, yield, ticks, emptyRun, base, sinkOps>>
    /\ UNCHANGED writeVars
    /\ UNCHANGED parseVars

\* the else branch of the loop, mutated: drains the stream as flush() does
ReadTestDrain ==
    /\ pc = "r_test"
    /\ IF t_now < t_stop
       THEN /\ pc' = "r_sample"
            /\ UNCHANGED <<warned, ret, buf, out>>
       ELSE /\ warned' = TRUE
            /\ out' = buf
            /\ buf' = <<>>
            /\ ret' = Strip(out')
            /\ pc' = "r_done"
    /\ UNCHANGED <<delivered, t_now, t_stop, last_val, now_val, buf0, samples, nreads>>
    /\ UNCHANGED <<err, interval, total, t_left, data, tries, data_n, raw_data, npy, csv,
                   parsed, cycles, tries0, yield, ticks, emptyRun, base, sinkOps>>
    /\ UNCHANGED writeVars
    /\ UNCHANGED parseVars

\* line 98, and on exhaustion lines 107-109
ReadTest ==
    /\ pc = "r_test"
    /\ IF t_now < t_stop
       THEN /\ pc' = "r_sample"
            /\ UNCHANGED <<warned, ret>>
       ELSE /\ warned' = TRUE
            /\ ret' = Strip(out)
            /\ pc' = "r_done"
    /\ UNCHANGED <<buf, delivered, t_now, t_stop, last_val, now_val, out, buf0,
                   samples, nreads>>
    /\ UNCHANGED <<err, interval, total, t_left, data, tries, data_n, raw_data, npy, csv,
                   parsed, cycles, tries0, yield, ticks, emptyRun, base, sinkOps>>
    /\ UNCHANGED writeVars
    /\ UNCHANGED parseVars

\* lines 99-100 and 104
ReadSample ==
    /\ pc = "r_sample"
    /\ now_val' = Len(buf)
    /\ samples' = Append(samples, Len(buf))
    /\ buf0' = buf
    /\ IF Stable(Len(buf), last_val)
       THEN /\ pc' = "r_consume"
            /\ last_val' = last_val
       ELSE /\ pc' = "r_sleep"
            /\ last_val' = Len(buf)
    /\ UNCHANGED <<buf, delivered, t_now, t_stop, out, ret, warned, nreads>>
    /\ UNCHANGED <<err, interval, total, t_left, data, tries, data_n, raw_data, npy, csv,
                   parsed, cycles, tries0, yield, ticks, emptyRun, base, sinkOps>>
    /\ UNCHANGED writeVars
    /\ UNCHANGED parseVars

\* lines 101-102 and 109: device.read(now_val), break, return
ReadConsume ==
    /\ pc = "r_consume"
    /\ out' = SubSeq(buf, 1, now_val)
    /\ buf' = SubSeq(buf, now_val + 1, Len(buf))
    /\ nreads' = nreads + 1
    /\ ret' = Strip(out')
    /\ pc' = "r_done"
    /\ UNCHANGED <<delivered, t_now, t_stop, last_val, now_val, warned, buf0, samples>>
    /\ UNCHANGED <<err, interval, total, t_left, data, tries, data_n, raw_data, npy, csv,
                   parsed, cycles, tries0, yield, ticks, emptyRun, base, sinkOps>>
    /\ UNCHANGED writeVars
    /\ UNCHANGED parseVars

\* lines 105-106: sleep(0.05) lasts one sampling period or longer
ReadSleep ==
    /\ pc = "r_sleep"
    /\ \E d \in {1, 2} : t_now' = t_now + d
    /\ pc' = "r_test"
    /\ UNCHANGED <<buf, delivered, t_stop, last_val, now_val, out, ret, warned,
                   buf0, samples, nreads>>
    /\ UNCHANGED <<err, interval, total, t_left, data, tries, data_n, raw_data, npy, csv,
                   parsed, cycles, tries0, yield, ticks, emptyRun, base, sinkOps>>
    /\ UNCHANGED writeVars
    /\ UNCHANGED parseVars

InitRead ==
    /\ InitReadVars
    /\ InitWriteVars
    /\ InitParseVars
    /\ pc = "r_call"
    /\ err = ""
    /\ interval = 0
    /\ total = None
    /\ t_left = 0
    /\ data = <<>>
    /\ tries = 0
    /\ data_n = <<>>
    /\ raw_data = <<>>
    /\ npy = <<>>
    /\ csv = NoFile
    /\ parsed = <<>>
    /\ cycles = 0
    /\ tries0 = 0
    /\ yield = 0
    /\ ticks = <<>>
    /\ emptyRun = 0
    /\ base = 0
    /\ sinkOps = 0

NextRead ==
    \/ Arrive
    \/ ReadStart
    \/ ReadTest
    \/ ReadSample
    \/ ReadConsume
    \/ ReadSleep

SpecRead == InitRead /\ [][NextRead]_vars


\* ------------------------------------------------------------------------
\* Properties of log_data (checked under Spec)
\* ------------------------------------------------------------------------
IsPrefix(a, b) == Len(a) <= Len(b) /\ SubSeq(b, 1, Len(a)) = a

Pattern == <<"E", "E", "S", "E", "E">>

\* a priming cycle or a collecting tick has just run to its end
CycleEnded ==
    \/ pc \in {"prime", "init_npy"} /\ cycles > 0
    \/ pc = "check"

\* between two ticks, the persistence of the tick included
TickBoundary ==
    \/ pc \in {"prime", "set_stop", "tick"}
    \/ pc = "stopped" /\ err = "" /\ cycles > 0

\* C1: while the collecting ticks so far are a prefix of 'empty, empty,
\* successful, empty, empty', no DataStarved error has been raised, whatever
\* number of priming cycles the session needed.
C1_PatternKeepsCollecting ==
    IsPrefix(ticks, Pattern) => err # "DataStarved"

\* C2: at the end of a cycle, in Priming and in Collecting, tries is zero if
\* the cycle yielded a Reading and one more than at its start if it yielded
\* none; tries is zero when Collecting is entered.
C2_CounterResetOrIncrement ==
    /\ CycleEnded /\ yield > 0 => tries = 0
    /\ CycleEnded /\ yield = 0 => tries = tries0 + 1
    /\ pc = "set_stop" => tries = 0

\* C3: in an empty run that began with the counter at 0, DataStarved is
\* raised on the fourth consecutive empty tick, not earlier and not later.
C3_StarvedOnFourthEmpty ==
    /\ base = 0 /\ err = "DataStarved" => emptyRun = 4
    /\ base = 0 /\ emptyRun >= 4 /\ cycles > 0 => err = "DataStarved"

\* C4: NoResponse is raised only when no Reading was obtained in any priming
\* cycle, the raising cycle included.
C4_NoResponseOnlyWithoutReading ==
    err = "NoResponse" => parsed = <<>>

\* C5: Priming performs at most three read cycles: after the third cycle
\* without a Reading the session has stopped with NoResponse.
C5_AtMostThreePrimingCycles ==
    /\ cycles <= 3
    /\ cycles = 3 /\ data = <<>> => pc = "stopped" /\ err = "NoResponse"

\* C6: between ticks the binary snapshot is the history, the CSV data rows are
\* the rows of the history, and the history is every Reading parsed so far in
\* tick and segment order.
C6_SinksEqualHistory ==
    TickBoundary =>
        /\ npy = data
        /\ csv.rows = CsvRows(data)
        /\ data = parsed

C6_Witness ==
    /\ pc = "tick"
    /\ Len(data) = 3
    /\ Len(ticks) >= 2
    /\ data[1] # data[2]
    /\ csv.rows = CsvRows(data)
    /\ npy = data

\* a step of a cycle that yielded no Reading
EmptyTickStep ==
    \/ pc = "prime" /\ cycles' = cycles + 1 /\ yield' = 0
    \/ pc = "tick" /\ pc' = "empty"
    \/ pc = "empty"
    \/ pc = "check" /\ yield = 0

\* C7: a tick that yields no Reading performs no sink operation and leaves the
\* history alone, so that after DataStarved the sinks hold the history as of
\* the last successful tick.
C7_EmptyTickTouchesNothing ==
    /\ [][EmptyTickStep => UNCHANGED <<data, npy, csv, sinkOps>>]_vars
    /\ [](err = "DataStarved" => npy = data /\ csv.rows = CsvRows(data) /\ data # <<>>)

C7_Witness ==
    /\ pc = "stopped"
    /\ err = "DataStarved"
    /\ Len(data) >= 2
    /\ npy = data

\* C8: every step of log_data leaves the previous history a prefix of the
\* new one.
C8_HistoryAppendOnly ==
    [][IsPrefix(data, data')]_vars

C8_Witness ==
    /\ pc = "save_npy"
    /\ Len(data) > Len(data_n)
    /\ Len(npy) < Len(data)
    /\ IsPrefix(npy, data)

\* ------------------------------------------------------------------------
\* Properties of read() (checked under SpecRead)
\* ------------------------------------------------------------------------
Last(s) == s[Len(s)]

\* the latest two samples were equal and positive
StableAtEnd ==
    /\ Len(samples) >= 2
    /\ Last(samples) > 0
    /\ samples[Len(samples) - 1] = Last(samples)

\* some sample was positive and equal to the one before it
StableSeen ==
    \E i \in 2..Len(samples) : samples[i] > 0 /\ samples[i] = samples[i - 1]

\* C9 as stated: bytes are consumed only at a stable observation, and the
\* number of bytes consumed and the number returned are both the count seen
\* at that observation.
C9_ReturnsStableCount ==
    nreads > 0 =>
        /\ StableAtEnd
        /\ Len(out) = Last(samples)
        /\ Len(ret) = Last(samples)

\* C9 amended: bytes are consumed only at a stable observation, never at the
\* first nonzero sample; the bytes consumed are exactly those buffered at that
\* observation, later bytes stay buffered, and the text returned is the
\* consumed bytes with leading and trailing whitespace stripped.
C9_ConsumesStableCount ==
    /\ pc = "r_consume" => StableAtEnd
    /\ nreads > 0 =>
        /\ StableAtEnd
        /\ out = buf0
        /\ Len(out) = Last(samples)
        /\ delivered = out \o buf
        /\ ret = Strip(out)
        /\ Len(ret) <= Last(samples)

C9_Witness ==
    /\ pc = "r_done"
    /\ nreads = 1
    /\ Len(out) = 2
    /\ buf # <<>>
    /\ Len(ret) < Len(out)

\* C10: read() warns exactly when it ends without a stable nonzero
\* observation; it then returns an empty frame and has consumed nothing, the
\* buffered bytes being left in the stream; a call performs at most one
\* consuming read.
C10_TimedOutConsumesNothing ==
    /\ nreads <= 1
    /\ pc = "r_done" => (warned <=> ~StableSeen)
    /\ pc = "r_done" => (warned <=> nreads = 0)
    /\ warned => ret = <<>> /\ out = <<>> /\ buf = delivered

C10_Witness ==
    /\ pc = "r_done"
    /\ warned
    /\ Len(samples) >= 3
    /\ \A i \in 2..Len(samples) : samples[i] # samples[i - 1]
    /\ Len(buf) >= 3


\* ------------------------------------------------------------------------
\* write(), flush() and the command helpers built on them
\* ------------------------------------------------------------------------
\* the transport calls of a helper
Fl == [op |-> "flush", text |-> <<>>]
Wr(cmd) == [op |-> "write", text |-> cmd]
Rd == [op |-> "read", text |-> <<>>]

\* entries of iolog: one per stream write, per flush and per read() cycle
LogW(bytes) == [op |-> "write", bytes |-> bytes]
LogF == [op |-> "flush", bytes |-> <<>>]
LogR == [op |-> "read", bytes |-> <<>>]

\* str(n) for 0 <= n < 100
Digit(d) == <<"0", "1", "2", "3", "4", "5", "6", "7", "8", "9">>[d + 1]

Str(n) == IF n < 10 THEN <<Digit(n)>> ELSE <<Digit(n \div 10), Digit(n % 10)>>

\* arguments the callers pass
Commands == {<<>>, <<"P">>, <<"S", "T">>}
AvgNums == {0, 5, 17}

\* entry to read() from a caller: a fresh activation
CallRead(back) ==
    /\ pc' = "r_call"
    /\ retTo' = back
    /\ t_now' = 0
    /\ t_stop' = 0
    /\ last_val' = 0
    /\ now_val' = 0
    /\ out' = <<>>
    /\ ret' = <<>>
    /\ warned' = FALSE
    /\ buf0' = <<>>
    /\ samples' = <<>>
    /\ nreads' = 0
    /\ UNCHANGED <<buf, delivered>>

\* a direct call of write(command), lines 73-84
CallWrite ==
    /\ pc = "idle"
    /\ \E cmd \in Commands :
         /\ helper' = "write"
         /\ todo' = <<Wr(cmd)>>
    /\ pc' = "next"
    /\ called' = todo'
    /\ UNCHANGED <<err, command, retTo, iolog>>
    /\ UNCHANGED logRest
    /\ UNCHANGED readVars
    /\ UNCHANGED parseVars

\* set_average, lines 143-158: the checks, then the calls to make
SetAverageBody(n) ==
    IF n < 1 \/ n > 16
    THEN /\ err' = "ValueError"
         /\ pc' = "stopped"
         /\ todo' = <<>>
    ELSE /\ todo' = <<Fl, Wr(<<"A", "V">>), Rd, Wr(Str(n)), Rd, Rd>>
         /\ pc' = "next"
         /\ err' = err

CallSetAverage ==
    /\ pc = "idle"
    /\ helper' = "set_average"
    /\ \E n \in AvgNums : SetAverageBody(n)
    /\ called' = todo'
    /\ UNCHANGED <<command, retTo, iolog>>
    /\ UNCHANGED logRest
    /\ UNCHANGED readVars
    /\ UNCHANGED parseVars

\* set_output_interval, lines 172-187, without the test of line 179
SetOutputIntervalBodyUnchecked(iv) ==
    /\ todo' = <<Fl, Wr(<<"O">>), Rd, Wr(Str(iv)), Rd, Rd>>
    /\ pc' = "next"
    /\ err' = err

\* set_output_interval, lines 172-187: the checks, then the calls to make
SetOutputIntervalBody(iv) ==
    IF iv < 1
    THEN /\ err' = "ValueError"
         /\ pc' = "stopped"
         /\ todo' = <<>>
    ELSE /\ todo' = <<Fl, Wr(<<"O">>), Rd, Wr(Str(iv)), Rd, Rd>>
         /\ pc' = "next"
         /\ err' = err

CallSetOutputInterval ==
    /\ pc = "idle"
    /\ helper' = "set_output_interval"
    /\ \E iv \in Intervals :
         /\ interval' = iv
         /\ SetOutputIntervalBody(iv)
    /\ called' = todo'
    /\ UNCHANGED <<command, retTo, iolog>>
    /\ UNCHANGED <<total, t_left, data, tries, data_n, raw_data, npy, csv, parsed,
                   cycles, tries0, yield, ticks, emptyRun, base, sinkOps>>
    /\ UNCHANGED readVars
    /\ UNCHANGED parseVars

\* log_data, lines 291-297: path check, file names, set_output_interval
CallLogData ==
    /\ pc = "idle"
    /\ helper' = "log_data"
    /\ \E iv \in Intervals, tot \in Totals, dirOK \in BOOLEAN :
         /\ interval' = iv
         /\ total' = tot
         /\ IF ~dirOK
            THEN /\ err' = "NotADirectoryError"
                 /\ pc' = "stopped"
                 /\ todo' = <<>>
            ELSE SetOutputIntervalBody(iv)
    /\ called' = todo'
    /\ UNCHANGED <<command, retTo, iolog>>
    /\ UNCHANGED <<t_left, data, tries, data_n, raw_data, npy, csv, parsed,
                   cycles, tries0, yield, ticks, emptyRun, base, sinkOps>>
    /\ UNCHANGED readVars
    /\ UNCHANGED parseVars

\* flush(), lines 70-71
DoFlush ==
    /\ pc = "next"
    /\ todo # <<>>
    /\ Head(todo).op = "flush"
    /\ buf' = <<>>
    /\ iolog' = Append(iolog, LogF)
    /\ todo' = Tail(todo)
    /\ UNCHANGED <<pc, err, helper, command, retTo, called>>
    /\ UNCHANGED <<delivered, t_now, t_stop, last_val, now_val, out, ret,
                   warned, buf0, samples, nreads>>
    /\ UNCHANGED logRest
    /\ UNCHANGED parseVars

\* a helper calls write(command)
DoWrite ==
    /\ pc = "next"
    /\ todo # <<>>
    /\ Head(todo).op = "write"
    /\ command' = Head(todo).text
    /\ todo' = Tail(todo)
    /\ pc' = "w_loop"
    /\ UNCHANGED <<err, helper, retTo, called, iolog>>
    /\ UNCHANGED readVars
    /\ UNCHANGED logRest
    /\ UNCHANGED parseVars

\* a helper calls read()
DoRead ==
    /\ pc = "next"
    /\ todo # <<>>
    /\ Head(todo).op = "read"
    /\ todo' = Tail(todo)
    /\ CallRead("next")
    /\ UNCHANGED <<err, helper, command, called, iolog>>
    /\ UNCHANGED logRest
    /\ UNCHANGED parseVars

\* lines 80-82: one character, then one read()
WriteChar ==
    /\ pc = "w_loop"
    /\ command # <<>>
    /\ iolog' = Append(iolog, LogW(<<Head(command)>>))
    /\ command' = Tail(command)
    /\ CallRead("w_loop")
    /\ UNCHANGED <<err, helper, todo, called>>
    /\ UNCHANGED logRest
    /\ UNCHANGED parseVars

\* line 84 followed by a read() of the reply
WriteEnterRead ==
    /\ pc = "w_loop"
    /\ command = <<>>
    /\ iolog' = Append(iolog, LogW(<<"CR", "LF">>))
    /\ CallRead("next")
    /\ UNCHANGED <<err, helper, todo, command, called>>
    /\ UNCHANGED logRest
    /\ UNCHANGED parseVars

\* line 84: the terminator, and write() returns
WriteEnter ==
    /\ pc = "w_loop"
    /\ command = <<>>
    /\ iolog' = Append(iolog, LogW(<<"CR", "LF">>))
    /\ pc' = "next"
    /\ UNCHANGED <<err, helper, todo, command, retTo, called>>
    /\ UNCHANGED readVars
    /\ UNCHANGED logRest
    /\ UNCHANGED parseVars

\* line 109: read() returns to its caller
ReadReturn ==
    /\ pc = "r_done"
    /\ retTo # ""
    /\ iolog' = Append(iolog, LogR)
    /\ pc' = retTo
    /\ UNCHANGED <<err, helper, todo, command, retTo, called>>
    /\ UNCHANGED readVars
    /\ UNCHANGED logRest
    /\ UNCHANGED parseVars

\* the helper has made all its calls
Return ==
    /\ pc = "next"
    /\ todo = <<>>
    /\ pc' = IF helper = "log_data" THEN "prime" ELSE "returned"
    /\ UNCHANGED <<err, helper, todo, command, retTo, called, iolog>>
    /\ UNCHANGED readVars
    /\ UNCHANGED logRest
    /\ UNCHANGED parseVars

InitCmd ==
    /\ InitReadVars
    /\ InitWriteVars
    /\ InitParseVars
    /\ pc = "idle"
    /\ err = ""
    /\ interval = 0
    /\ total = None
    /\ t_left = 0
    /\ data = <<>>
    /\ tries = 0
    /\ data_n = <<>>
    /\ raw_data = <<>>
    /\ npy = <<>>
    /\ csv = NoFile
    /\ parsed = <<>>
    /\ cycles = 0
    /\ tries0 = 0
    /\ yield = 0
    /\ ticks = <<>>
    /\ emptyRun = 0
    /\ base = 0
    /\ sinkOps = 0

NextCmd ==
    \/ CallWrite
    \/ CallSetAverage
    \/ CallSetOutputInterval
    \/ CallLogData
    \/ DoFlush
    \/ DoWrite
    \/ DoRead
    \/ WriteChar
    \/ WriteEnter
    \/ ReadReturn
    \/ Return
    \/ Arrive
    \/ ReadStart
    \/ ReadTest
    \/ ReadSample
    \/ ReadConsume
    \/ ReadSleep

SpecCmd == InitCmd /\ [][NextCmd]_vars


\* ------------------------------------------------------------------------
\* Properties of write() and the command helpers (checked under SpecCmd)
\* ------------------------------------------------------------------------
\* the stream operations of write(cmd): per character a write and a read
\* cycle, then the terminator
RECURSIVE ExpectedWrite(_)
ExpectedWrite(cmd) ==
    IF cmd = <<>> THEN <<LogW(<<"CR", "LF">>)>>
    ELSE <<LogW(<<Head(cmd)>>), LogR>> \o ExpectedWrite(Tail(cmd))

\* the stream operations of a list of transport calls
RECURSIVE ExpectedIO(_)
ExpectedIO(calls) ==
    IF calls = <<>> THEN <<>>
    ELSE (CASE Head(calls).op = "flush" -> <<LogF>>
            [] Head(calls).op = "read" -> <<LogR>>
            [] Head(calls).op = "write" -> ExpectedWrite(Head(calls).text))
         \o ExpectedIO(Tail(calls))

InRead == pc \in {"r_call", "r_test", "r_sample", "r_consume", "r_sleep", "r_done"}

InWrite == pc = "w_loop" \/ (InRead /\ retTo = "w_loop")

\* what is still to come: the read cycle under way, the rest of the write()
\* under way, the calls not yet made
StillToDo ==
    (IF InRead THEN <<LogR>> ELSE <<>>)
    \o (IF InWrite THEN ExpectedWrite(command) ELSE <<>>)
    \o ExpectedIO(todo)

CountOp(log, o) == Cardinality({i \in 1..Len(log) : log[i].op = o})

\* C11: write(command) writes every character once and in order, each write
\* of a character followed by exactly one read() cycle, timed out or not,
\* and then writes CR LF with no read() after it: len(command)+1 stream
\* writes and len(command) read cycles.
C11_WriteInterleavesReads ==
    /\ helper # "" /\ err = "" => iolog \o StillToDo = ExpectedIO(called)
    /\ helper = "write" /\ pc = "returned" =>
         /\ iolog = ExpectedWrite(called[1].text)
         /\ CountOp(iolog, "write") = Len(called[1].text) + 1
         /\ CountOp(iolog, "read") = Len(called[1].text)
         /\ iolog[Len(iolog)] = LogW(<<"CR", "LF">>)

C11_Witness ==
    /\ helper = "write"
    /\ pc = "returned"
    /\ called = <<Wr(<<"S", "T">>)>>
    /\ Len(iolog) = 5
    /\ warned
    /\ buf # <<>>


\* ------------------------------------------------------------------------
\* _parse_data applied to a text
\* ------------------------------------------------------------------------
\* the texts: one to MaxLines segments
RECURSIVE Texts(_)
Texts(n) ==
    IF n = 0 THEN {<<>>}
    ELSE LET shorter == Texts(n - 1)
         IN  shorter \cup {Append(t, sg) : t \in {u \in shorter : Len(u) = n - 1}, sg \in Segments}

ParseInputs == Texts(MaxLines) \ {<<>>}

\* lines 199-243: one call
Parse ==
    /\ pc = "p_call"
    /\ p_res' = _parse_data(p_lines, p_lt)
    /\ p_warn' = ParseWarnings(p_lines)
    /\ pc' = "p_done"
    /\ UNCHANGED <<p_lines, p_lt>>
    /\ UNCHANGED <<err, logRest>>
    /\ UNCHANGED readVars
    /\ UNCHANGED writeVars

InitParse ==
    /\ InitReadVars
    /\ InitWriteVars
    /\ p_lines \in ParseInputs
    /\ p_lt \in LocalTimes
    /\ p_res = NotCalled
    /\ p_warn = {}
    /\ pc = "p_call"
    /\ err = ""
    /\ interval = 0
    /\ total = None
    /\ t_left = 0
    /\ data = <<>>
    /\ tries = 0
    /\ data_n = <<>>
    /\ raw_data = <<>>
    /\ npy = <<>>
    /\ csv = NoFile
    /\ parsed = <<>>
    /\ cycles = 0
    /\ tries0 = 0
    /\ yield = 0
    /\ ticks = <<>>
    /\ emptyRun = 0
    /\ base = 0
    /\ sinkOps = 0

NextParse == Parse

SpecParse == InitParse /\ [][NextParse]_vars

\* the first segment that itself contains a NAME = value token
FirstWithToken(lines) ==
    lines[CHOOSE i \in 1..Len(lines) :
            /\ HasToken(lines[i])
            /\ \A j \in 1..(i - 1) : ~HasToken(lines[j])]

\* C12: for a text of several segments of which some contain a token, the
\* segment parsed is the first that itself contains a token; with two
\* segments of which only the second has a token the Reading is built from
\* the second and the parse does not fail with NoData.
C12_FirstQualifyingSegment ==
    pc = "p_done" /\ Len(p_lines) > 1 /\ (\E i \in 1..Len(p_lines) : HasToken(p_lines[i])) =>
        /\ p_res = _parse_data(<<FirstWithToken(p_lines)>>, p_lt)
        /\ (Len(p_lines) = 2 /\ ~HasToken(p_lines[1]) /\ p_lines[2] = SegLock => p_res.error = "")

\* C13: a single-line segment with at least one token always parses; a
\* missing or separator-less timestamp gives the local time with a warning
\* and a missing status gives UNKNOWN with a warning.
C13_OnlyNoDataFails ==
    pc = "p_done" /\ Len(p_lines) = 1 /\ HasToken(p_lines[1]) =>
        /\ p_res.error = ""
        /\ p_lines[1].ts \in {"none", "nosep"} => p_res.dt = p_lt /\ "no timestamp" \in p_warn
        /\ p_lines[1].status = "" => p_res.status = "UNKNOWN" /\ "no status" \in p_warn

\* C17: a Reading has as many names as values, the i-th of each from the i-th
\* NAME = value occurrence of the parsed segment; a value text that float()
\* rejects makes the parse fail.
C17_NamesMatchValues ==
    pc = "p_done" =>
        /\ p_res.error = "" =>
             /\ Len(p_res.measurements) = Len(p_res.data)
             /\ Len(p_res.data) = Len(p_lines[1].toks)
             /\ \A i \in 1..Len(p_res.data) :
                  /\ p_res.measurements[i] = p_lines[1].toks[i].name
                  /\ p_res.data[i] = p_lines[1].toks[i].num
                  /\ p_lines[1].toks[i].ok
        /\ (\E i \in 1..Len(p_lines[1].toks) : ~p_lines[1].toks[i].ok) => p_res.error # ""

C17_Witness ==
    /\ pc = "p_done"
    /\ p_res.error = ""
    /\ p_res.measurements = <<"DP", "AT">>
    /\ p_res.data = <<1234565, 21>>


\* C14: a rejected configuration performs no device I/O: set_average outside
\* 1..16, set_output_interval below 1 and log_data with an interval below 1
\* raise with no flush, write or read performed and no sink file touched.
C14_RejectedConfigNoIO ==
    /\ err = "ValueError" =>
         /\ pc = "stopped"
         /\ iolog = <<>>
         /\ delivered = <<>>
         /\ sinkOps = 0
         /\ csv = NoFile
         /\ npy = <<>>
    /\ helper \in {"set_output_interval", "log_data"} /\ interval < 1 =>
         /\ pc = "stopped"
         /\ err \in {"ValueError", "NotADirectoryError"}
    /\ helper = "set_average" /\ err = "" =>
         called[4].text \in {Str(n) : n \in 1..16}

C14_Witness ==
    /\ helper = "log_data"
    /\ interval = 0
    /\ pc = "stopped"
    /\ err = "ValueError"
    /\ iolog = <<>>
    /\ csv = NoFile


\* ------------------------------------------------------------------------
\* Deadline and cancellation of log_data
\* ------------------------------------------------------------------------
Running == pc \notin {"call", "stopped", "idle", "returned"}

\* C15: with a total, the session stops without an error only from the
\* deadline test at the end of a collecting tick, which stops it whenever the
\* deadline has passed; at such a stop at least one collecting tick has run
\* and its Readings are in both sinks; and a session with a deadline
\* eventually stops.
C15_DeadlineStopsAtTickEnd ==
    /\ [][pc # "stopped" /\ pc' = "stopped" /\ err' = ""
            => pc = "check" /\ total # None /\ t_left = 0]_vars
    /\ [][pc = "check" /\ total # None /\ t_left = 0 /\ err' = ""
            => pc' = "stopped"]_vars
    /\ [](pc = "stopped" /\ err = "" =>
            /\ Len(ticks) >= 1
            /\ npy = data
            /\ csv.rows = CsvRows(data)
            /\ data = parsed)
    /\ (Running /\ total # None) ~> (pc = "stopped")

C15_Witness ==
    /\ pc = "stopped"
    /\ err = ""
    /\ total = 0
    /\ ticks = <<"S">>
    /\ Len(data) >= 2
    /\ npy = data

\* C16: when log_data has been stopped by ctrl-c, the binary snapshot and the
\* CSV rows both hold the whole history.
C16_CancelLeavesSinksConsistent ==
    err = "KeyboardInterrupt" =>
        /\ npy = data
        /\ csv.rows = CsvRows(data)


\* ------------------------------------------------------------------------
\* Segments of a frame and the range of the counter
\* ------------------------------------------------------------------------
Parses(seg, lt) == _parse_data(<<seg>>, lt).error = ""

\* the Readings of the segments of a frame that parse, in segment order
Contribution(frame, lt) ==
    LET good == SelectSeq(frame, LAMBDA sg : Parses(sg, lt))
    IN  [i \in 1..Len(good) |-> _parse_data(<<good[i]>>, lt)]

\* C18: in every cycle each segment of the frame is parsed on its own, the
\* segments that parse contribute their Readings in segment order, the others
\* contribute nothing and abort nothing, and the cycle goes on to persist
\* exactly when at least one segment parsed.
C18_SegmentsParsedIndependently ==
    /\ [][pc = "prime" /\ cycles' = cycles + 1 =>
            \E lt \in LocalTimes :
                /\ data' = data \o Contribution(raw_data', lt)
                /\ (pc' = "init_npy") <=> (Contribution(raw_data', lt) # <<>>)]_vars
    /\ [][pc = "tick" /\ pc' \in {"append", "empty"} =>
            \E lt \in LocalTimes :
                /\ data_n' = Contribution(raw_data', lt)
                /\ (pc' = "append") <=> (data_n' # <<>>)]_vars
    /\ [][pc = "append" /\ pc' = "save_npy" => data' = data \o data_n]_vars

\* C19: tries lies between 0 and 4, and is at most 3 while in Priming.
C19_TriesRange ==
    /\ tries \in 0..4
    /\ pc = "prime" \/ err = "NoResponse" => tries <= 3

C19_Witness ==
    /\ pc = "check"
    /\ tries = 4
    /\ err = ""
    /\ emptyRun = 4

====
